---------------------------- MODULE Spec2Model ----------------------------
(***************************************************************************)
(* A model of AIaaLT.py, the lookup-table generator: the range parser, the *)
(* notes loader, the function loader, the table renderer and the command   *)
(* driver.  Strings are sequences of one-character strings, so that        *)
(* splitting, stripping, integer parsing and integer formatting are        *)
(* computed rather than assumed.                                           *)
(***************************************************************************)
EXTENDS Integers, Sequences, FiniteSets, TLC

VARIABLES
    pc,           \* control location of the run
    argv,         \* the inputs of the run (command line, or the arguments of a direct call)
    env,          \* the files the run may read: the notes file and the Dart file
    func,         \* the callable built by create_function
    ranges_data,  \* list of (name, range) built by main, or passed to generate_tables
    notes,        \* the notes text handed to the renderer
    outdir,       \* the output directory: does it exist, did it exist before the call
    files,        \* the document files under the output directory: filename -> content
    stdout,       \* lines printed to the standard output
    stderr,       \* lines printed to the error stream
    status,       \* exit status of the process, -1 while it runs
    calls,        \* the argument lists func was invoked with, in order
    stages,       \* the pipeline stages invoked so far, in order
    cur,          \* loop positions of generate_tables and _write_table_file
    exc,          \* the exception in flight, "none" when there is none
    ret           \* the value returned by a direct call of parse_range_spec

vars == <<pc, argv, env, func, ranges_data, notes, outdir, files, stdout, stderr,
          status, calls, stages, cur, exc, ret>>

---------------------------------------------------------------------------
(* Bounds of the model *)

\* integers of the range descriptors of the parser specification lie in -MaxInt..MaxInt
MaxInt == 3

---------------------------------------------------------------------------
(* Strings *)

\* Op applied to the value of arg, which is computed once
Strict(Op(_), arg) == CHOOSE r \in {Op(x) : x \in {arg}} : TRUE

DigitChars == <<"0", "1", "2", "3", "4", "5", "6", "7", "8", "9">>

Digits == {DigitChars[i] : i \in 1..10}

DigitVal(c) == (CHOOSE i \in 1..10 : DigitChars[i] = c) - 1

Whitespace == {" ", "\n", "\t"}

\* str.strip(): leading and trailing whitespace removed
RECURSIVE LStrip(_)
LStrip(s) ==
    IF s # <<>> /\ Head(s) \in Whitespace THEN LStrip(Tail(s)) ELSE s

RECURSIVE RStrip(_)
RStrip(s) ==
    IF s # <<>> /\ s[Len(s)] \in Whitespace THEN RStrip(SubSeq(s, 1, Len(s) - 1)) ELSE s

Strip(s) == RStrip(LStrip(s))

\* str.endswith
EndsWith(s, suffix) ==
    /\ Len(s) >= Len(suffix)
    /\ SubSeq(s, Len(s) - Len(suffix) + 1, Len(s)) = suffix

\* str.split(':'): the fields between the separators, one more field than
\* there are separators
Split(s, sep) ==
    LET at     == {i \in 1..Len(s) : s[i] = sep}
        pos(k) == CHOOSE i \in at : Cardinality({m \in at : m < i}) = k - 1
        n      == Cardinality(at)
    IN  [k \in 1..(n + 1) |->
            SubSeq(s, IF k = 1 THEN 1 ELSE pos(k - 1) + 1,
                      IF k = n + 1 THEN Len(s) ELSE pos(k) - 1)]

RECURSIVE DigitsVal(_)
DigitsVal(d) ==
    IF d = <<>> THEN 0
    ELSE DigitsVal(SubSeq(d, 1, Len(d) - 1)) * 10 + DigitVal(d[Len(d)])

\* int() of a text without surrounding whitespace: an optional sign, then at
\* least one decimal digit; anything else is a ValueError
IntOfStripped(t) ==
    LET sgn  == t # <<>> /\ Head(t) \in {"+", "-"}
        body == IF sgn THEN Tail(t) ELSE t
        good == body # <<>> /\ \A i \in 1..Len(body) : body[i] \in Digits
    IN  IF ~good THEN [ok |-> FALSE, val |-> 0]
        ELSE [ok |-> TRUE,
              val |-> IF sgn /\ Head(t) = "-" THEN 0 - DigitsVal(body)
                      ELSE DigitsVal(body)]

\* int(text): surrounding whitespace is ignored
PyInt(text) == Strict(IntOfStripped, Strip(text))

RECURSIVE NatToStr(_)
NatToStr(n) ==
    IF n < 10 THEN <<DigitChars[n + 1]>>
    ELSE NatToStr(n \div 10) \o <<DigitChars[(n % 10) + 1]>>

\* f"{n}" of an integer
IntToStr(n) == IF n < 0 THEN <<"-">> \o NatToStr(0 - n) ELSE NatToStr(n)

RECURSIVE Zeros(_)
Zeros(k) == IF k <= 0 THEN <<>> ELSE <<"0">> \o Zeros(k - 1)

\* f"{n:03d}": zero-padded to a width of three, the sign counted in the width
Fmt03d(n) ==
    LET d == NatToStr(IF n < 0 THEN 0 - n ELSE n)
        s == IF n < 0 THEN <<"-">> ELSE <<>>
    IN  s \o Zeros(3 - Len(s) - Len(d)) \o d

---------------------------------------------------------------------------
(* parse_range_spec *)

\* the elements of range(start, stop, step), step # 0
PyRange(start, stop, step) ==
    LET lo == IF step > 0 THEN start ELSE stop
        hi == IF step > 0 THEN stop ELSE start
        st == IF step > 0 THEN step ELSE 0 - step
        n  == IF lo >= hi THEN 0 ELSE ((hi - lo - 1) \div st) + 1
    IN  [i \in 1..n |-> start + (i - 1) * step]

\* a range that stops short of the stop value (stop exclusive, no "+ step")
RangeCtor_Exclusive(start, stop, step) ==
    IF step = 0 THEN [ok |-> FALSE, values |-> <<>>]
    ELSE [ok |-> TRUE, values |-> PyRange(start, stop, step)]

\* a range constructor that does not reject a zero step
RangeCtor_LazyZero(start, stop, step) ==
    IF step = 0 THEN [ok |-> TRUE, values |-> <<>>]
    ELSE [ok |-> TRUE, values |-> PyRange(start, stop + step, step)]

\* range(start, stop + step, step): a zero step raises ValueError
RangeCtor(start, stop, step) ==
    IF step = 0 THEN [ok |-> FALSE, values |-> <<>>]
    ELSE [ok |-> TRUE, values |-> PyRange(start, stop + step, step)]

NoRange == [ok |-> FALSE, exc |-> "none", name |-> <<>>, values |-> <<>>]

\* parse_range_spec after the split: the check of the number of fields, the
\* three int() calls and the range
RangeOfParts(parts) ==
    IF Len(parts) # 4
    THEN [NoRange EXCEPT !.exc = "ValueError:format"]
    ELSE LET ints == <<PyInt(parts[2]), PyInt(parts[3]), PyInt(parts[4])>>
         IN  IF ~(ints[1].ok /\ ints[2].ok /\ ints[3].ok)
             THEN [NoRange EXCEPT !.exc = "ValueError:numeric"]
             ELSE LET r == RangeCtor(ints[1].val, ints[2].val, ints[3].val)
                  IN  IF ~r.ok
                      THEN [NoRange EXCEPT !.exc = "ValueError:numeric"]
                      ELSE [ok |-> TRUE, exc |-> "none",
                            name |-> parts[1], values |-> r.values]

\* the result of parse_range_spec: (name, range), or the ValueError it raises
parse_range_spec(range_spec) == Strict(RangeOfParts, Split(range_spec, ":"))

---------------------------------------------------------------------------
(* load_notes *)

MdSuffix == <<".", "m", "d">>

\* load_notes returning the text as it was given
load_notes_Verbatim(notes_input, notes_file) ==
    LET s == Strip(notes_input)
    IN  IF EndsWith(s, MdSuffix)
        THEN IF notes_file.exists
             THEN [ok |-> TRUE, exc |-> "none", text |-> notes_file.content]
             ELSE [ok |-> FALSE, exc |-> "FileNotFoundError:notes", text |-> <<>>]
        ELSE [ok |-> TRUE, exc |-> "none", text |-> notes_input]

\* the result of load_notes: the file's contents when the stripped input
\* names a .md file, otherwise the stripped input itself
load_notes(notes_input, notes_file) ==
    LET s == Strip(notes_input)
    IN  IF EndsWith(s, MdSuffix)
        THEN IF notes_file.exists
             THEN [ok |-> TRUE, exc |-> "none", text |-> notes_file.content]
             ELSE [ok |-> FALSE, exc |-> "FileNotFoundError:notes", text |-> <<>>]
        ELSE [ok |-> TRUE, exc |-> "none", text |-> s]

---------------------------------------------------------------------------
(* create_function and parse_dart_function *)

\* A callable is opaque: what the renderer can observe of it is for which
\* argument lists it raises.  It never raises, always raises, or raises when
\* the argument at one position has one value (a division by that argument).
NoFunc == [kind |-> "unset", pos |-> 0, val |-> 0]

Raises(f, args) ==
    \/ f.kind = "always"
    \/ f.kind = "at" /\ f.pos <= Len(args) /\ args[f.pos] = f.val

\* parse_dart_function: the lambda source, or the error raised
parse_dart_function(dart) ==
    IF ~dart.exists THEN "FileNotFoundError:dart"
    ELSE IF ~dart.braces \/ ~dart.return THEN "ValueError:dart"
    ELSE "none"

\* create_function: the callable, or the error raised.  The input is a Dart
\* file path, a lambda, a def or another expression; evaluating the code
\* either yields the callable or raises.
create_function(func_input) ==
    IF func_input.form = "dart"
    THEN LET e == parse_dart_function(func_input.dart)
         IN  IF e # "none" THEN [ok |-> FALSE, exc |-> e, f |-> NoFunc]
             ELSE IF ~func_input.evals
                  THEN [ok |-> FALSE, exc |-> "ValueError:dart-eval", f |-> NoFunc]
                  ELSE [ok |-> TRUE, exc |-> "none", f |-> func_input.behaviour]
    ELSE IF ~func_input.evals \/ (func_input.form = "def" /\ ~func_input.defines)
         THEN [ok |-> FALSE, exc |-> "ValueError:python", f |-> NoFunc]
         ELSE [ok |-> TRUE, exc |-> "none", f |-> func_input.behaviour]

---------------------------------------------------------------------------
(* The documents *)

\* A document file is what was written to it: the title, the notes block when
\* one was written, the header row and the separator row when written, and
\* the data rows, each a label, its cells and whether its line was ended;
\* layout lists the blocks in the order they were written.
NewDoc(title) ==
    [title |-> title, notes |-> <<>>, header |-> <<>>, sep |-> <<>>, rows |-> <<>>,
     layout |-> <<"title">>]

ErrorCell == [text |-> "ERROR", args |-> <<>>]

\* f" {result} |": the cell shows the value func returned for args
ValueCell(args) == [text |-> "value", args |-> args]

\* files with the document under filename replaced (open(filename, 'w') and
\* every later write to it)
Put(fs, filename, doc) ==
    [n \in (DOMAIN fs) \cup {filename} |-> IF n = filename THEN doc ELSE fs[n]]

NoFiles == [n \in {} |-> NewDoc(<<>>)]

\* None, and an integer that is not None
None == <<>>
Some(v) == <<v>>

NoCur == [n |-> 0, k |-> 0, i |-> 0, j |-> 0, filename |-> <<>>, title |-> <<>>,
          first_val |-> None]

\* the ranges of the call, by role
Dim == Len(ranges_data)
first_name  == ranges_data[1].name
first_range == ranges_data[1].values
row_name    == ranges_data[Dim - 1].name
row_range   == ranges_data[Dim - 1].values
col_name    == ranges_data[Dim].name
col_range   == ranges_data[Dim].values

\* three strings joined, as an f-string joins its parts
Cat3(a, b, c) == a \o b \o c

\* filename of the single document of the 2D case, without the directory
Filename2D(rn, cn) == Cat3(rn, <<"2">>, cn) \o MdSuffix

\* filename of the document of one outer value of the 3D case
Filename3D(fname, first_val) == Cat3(fname, <<"_">>, Fmt03d(first_val)) \o MdSuffix

\* title of the document of one outer value of the 3D case
Title3D(title, fname, first_val) ==
    title \o <<":", " ">> \o fname \o <<" ", "=", " ">> \o IntToStr(first_val)

\* the argument list of one cell: "if first_val is not None" tells the 3D case
CellArgs(first_val, row_val, col_val) ==
    IF first_val # None THEN <<first_val[1], row_val, col_val>>
    ELSE <<row_val, col_val>>

---------------------------------------------------------------------------
(* generate_tables and _write_table_file *)

Raise(e) == /\ exc' = e
            /\ pc' = "raised"

\* makedirs done after the dimension check
Makedirs_AfterCheck(d) == IF Dim \in {2, 3} THEN [d EXCEPT !.exists = TRUE] ELSE d

\* os.makedirs(output_dir, exist_ok=True)
Makedirs(d) == [d EXCEPT !.exists = TRUE]

\* generate_tables up to its dispatch on the number of ranges
GT_Enter ==
    /\ pc = "generate_tables"
    /\ stages' = Append(stages, "generate_tables")
    /\ outdir' = Makedirs(outdir)
    /\ IF Dim = 2
       THEN /\ cur' = [cur EXCEPT !.filename = Filename2D(row_name, col_name),
                                  !.title = argv.title,
                                  !.first_val = None]
            /\ pc' = "open"
            /\ exc' = exc
       ELSE IF Dim = 3
            THEN /\ cur' = [cur EXCEPT !.k = 1]
                 /\ pc' = "for_first"
                 /\ exc' = exc
            ELSE /\ Raise("ValueError:dimensions")
                 /\ cur' = cur
    /\ UNCHANGED <<argv, env, func, ranges_data, notes, files, stdout, stderr,
                   status, calls, ret>>

\* one turn of "for first_val in first_range", and the print after the loop
GT_ForFirst ==
    /\ pc = "for_first"
    /\ IF cur.k <= Len(first_range)
       THEN /\ cur' = [cur EXCEPT
                 !.filename = Filename3D(first_name, first_range[cur.k]),
                 !.title = Title3D(argv.title, first_name, first_range[cur.k]),
                 !.first_val = Some(first_range[cur.k])]
            /\ pc' = "open"
            /\ stdout' = stdout
       ELSE /\ stdout' = Append(stdout, <<"generated", Len(first_range)>>)
            /\ pc' = "gt_return"
            /\ cur' = cur
    /\ UNCHANGED <<argv, env, func, ranges_data, notes, outdir, files, stderr,
                   status, calls, stages, exc, ret>>

\* "if notes: f.write(notes)": nothing is written for empty notes
NotesBlock(n) == IF n # <<>> THEN <<n>> ELSE <<>>

\* open(filename, 'w'), the title and the notes
WT_Open ==
    /\ pc = "open"
    /\ files' = Put(files, cur.filename,
                    [NewDoc(cur.title) EXCEPT
                        !.notes = NotesBlock(notes),
                        !.layout = @ \o [i \in 1..Len(NotesBlock(notes)) |-> "notes"]])
    /\ pc' = "header"
    /\ UNCHANGED <<argv, env, func, ranges_data, notes, outdir, stdout, stderr,
                   status, calls, stages, cur, exc, ret>>

\* the header row and the separator row; row_name[0] and col_name[0] raise
\* IndexError for an empty name, with the file already open
WT_Header ==
    /\ pc = "header"
    /\ IF row_name = <<>> \/ col_name = <<>>
       THEN /\ Raise("IndexError")
            /\ UNCHANGED <<files, cur>>
       ELSE /\ files' = Put(files, cur.filename,
                 [files[cur.filename] EXCEPT
                     !.header = <<[label |-> <<row_name[1], col_name[1]>>,
                                   cols |-> col_range]>>,
                     !.sep = <<Len(col_range)>>,
                     !.layout = @ \o <<"header", "sep">>])
            /\ cur' = [cur EXCEPT !.i = 1]
            /\ pc' = "row"
            /\ exc' = exc
    /\ UNCHANGED <<argv, env, func, ranges_data, notes, outdir, stdout, stderr,
                   status, calls, stages, ret>>

\* one turn of "for row_val in row_range": the row label; after the last row
\* the file is closed and generate_tables goes on
WT_Row ==
    /\ pc = "row"
    /\ IF cur.i <= Len(row_range)
       THEN /\ files' = Put(files, cur.filename,
                 [files[cur.filename] EXCEPT
                     !.rows = Append(@, [label |-> row_range[cur.i],
                                         cells |-> <<>>, ended |-> FALSE]),
                     !.layout = Append(@, "row")])
            /\ cur' = [cur EXCEPT !.j = 1]
            /\ pc' = "cell"
            /\ stdout' = stdout
       ELSE /\ files' = files
            /\ IF Dim = 3
               THEN /\ cur' = [cur EXCEPT !.k = @ + 1]
                    /\ pc' = "for_first"
                    /\ stdout' = stdout
               ELSE /\ stdout' = Append(stdout, <<"generated", cur.filename>>)
                    /\ pc' = "gt_return"
                    /\ cur' = cur
    /\ UNCHANGED <<argv, env, func, ranges_data, notes, outdir, stderr,
                   status, calls, stages, exc, ret>>

\* try: func(args), the value written; except Exception: ERROR written
CellOutcome(f, args) == IF Raises(f, args) THEN "ERROR" ELSE "value"

\* one turn of "for col_val in col_range": func is called and the cell written
WT_Cell ==
    /\ pc = "cell"
    /\ cur.j <= Len(col_range)
    /\ LET args == CellArgs(cur.first_val, row_range[cur.i], col_range[cur.j])
           out  == CellOutcome(func, args)
           add(c) == Put(files, cur.filename,
                         [files[cur.filename] EXCEPT !.rows[cur.i].cells = Append(@, c)])
       IN  /\ calls' = Append(calls, args)
           /\ files' = add(IF out = "ERROR" THEN ErrorCell ELSE ValueCell(args))
           /\ stdout' = IF out = "ERROR"
                        THEN Append(stdout, <<"warning", args>>)
                        ELSE stdout
    /\ cur' = [cur EXCEPT !.j = @ + 1]
    /\ UNCHANGED <<pc, argv, env, func, ranges_data, notes, outdir, stderr,
                   status, stages, exc, ret>>

\* the end of a data row: the line is ended
WT_EndRow ==
    /\ pc = "cell"
    /\ cur.j > Len(col_range)
    /\ files' = Put(files, cur.filename,
                    [files[cur.filename] EXCEPT !.rows[cur.i].ended = TRUE])
    /\ cur' = [cur EXCEPT !.i = @ + 1]
    /\ pc' = "row"
    /\ UNCHANGED <<argv, env, func, ranges_data, notes, outdir, stdout, stderr,
                   status, calls, stages, exc, ret>>

---------------------------------------------------------------------------
(* main *)

\* argparse (nargs='+' wants at least one range) and the check of the number
\* of ranges: parser.error prints the usage and exits with status 2
M_ParseArgs ==
    /\ pc = "main"
    /\ IF Len(argv.ranges) < 2 \/ Len(argv.ranges) > 3
       THEN /\ stderr' = Append(stderr, <<"usage", "error: ranges">>)
            /\ status' = 2
            /\ pc' = "exit"
       ELSE /\ pc' = "create_function"
            /\ UNCHANGED <<stderr, status>>
    /\ UNCHANGED <<argv, env, func, ranges_data, notes, outdir, files, stdout,
                   calls, stages, cur, exc, ret>>

\* func = create_function(args.function)
M_CreateFunction ==
    /\ pc = "create_function"
    /\ stages' = Append(stages, "create_function")
    /\ LET r == create_function(argv.function)
       IN  IF r.ok
           THEN /\ func' = r.f
                /\ cur' = [cur EXCEPT !.n = 1]
                /\ pc' = "parse_ranges"
                /\ exc' = exc
           ELSE /\ Raise(r.exc)
                /\ UNCHANGED <<func, cur>>
    /\ UNCHANGED <<argv, env, ranges_data, notes, outdir, files, stdout, stderr,
                   status, calls, ret>>

\* one turn of "for range_spec in args.ranges"
M_ParseRange ==
    /\ pc = "parse_ranges"
    /\ stages' = Append(stages, "parse_range_spec")
    /\ LET r == parse_range_spec(argv.ranges[cur.n])
       IN  IF r.ok
           THEN /\ ranges_data' = Append(ranges_data,
                                         [name |-> r.name, values |-> r.values])
                /\ cur' = [cur EXCEPT !.n = @ + 1]
                /\ pc' = IF cur.n = Len(argv.ranges) THEN "load_notes"
                         ELSE "parse_ranges"
                /\ exc' = exc
           ELSE /\ Raise(r.exc)
                /\ UNCHANGED <<ranges_data, cur>>
    /\ UNCHANGED <<argv, env, func, notes, outdir, files, stdout, stderr,
                   status, calls, ret>>

\* notes = load_notes(args.notes) if args.notes else ""
M_LoadNotes ==
    /\ pc = "load_notes"
    /\ IF argv.notes = <<>>
       THEN /\ notes' = <<>>
            /\ pc' = "generate_tables"
            /\ UNCHANGED <<stages, exc>>
       ELSE /\ stages' = Append(stages, "load_notes")
            /\ LET r == load_notes(argv.notes, env.notes_file)
               IN  IF r.ok
                   THEN /\ notes' = r.text
                        /\ pc' = "generate_tables"
                        /\ exc' = exc
                   ELSE /\ Raise(r.exc)
                        /\ notes' = notes
    /\ UNCHANGED <<argv, env, func, ranges_data, outdir, files, stdout, stderr,
                   status, calls, cur, ret>>

\* the handler without its sys.exit(1): the error is printed and main returns
M_Catch_NoExit ==
    /\ pc = "raised"
    /\ stderr' = Append(stderr, <<"Error", exc>>)
    /\ status' = 0
    /\ pc' = "exit"
    /\ UNCHANGED <<argv, env, func, ranges_data, notes, outdir, files, stdout,
                   calls, stages, cur, exc, ret>>

\* except Exception as e: print(f"Error: {e}", file=sys.stderr); sys.exit(1)
M_Catch ==
    /\ pc = "raised"
    /\ stderr' = Append(stderr, <<"Error", exc>>)
    /\ status' = 1
    /\ pc' = "exit"
    /\ UNCHANGED <<argv, env, func, ranges_data, notes, outdir, files, stdout,
                   calls, stages, cur, exc, ret>>

\* main returns after generate_tables: the process exits with status 0
M_Return ==
    /\ pc = "gt_return"
    /\ status' = 0
    /\ pc' = "exit"
    /\ UNCHANGED <<argv, env, func, ranges_data, notes, outdir, files, stdout,
                   stderr, calls, stages, cur, exc, ret>>

\* a direct call of parse_range_spec
PR_Call ==
    /\ pc = "parse_range_spec"
    /\ ret' = parse_range_spec(argv.ranges[1])
    /\ pc' = "range_done"
    /\ UNCHANGED <<argv, env, func, ranges_data, notes, outdir, files, stdout,
                   stderr, status, calls, stages, cur, exc>>

---------------------------------------------------------------------------
(* Inputs *)

\* ranges handed to generate_tables directly hold at most MaxLen values
MaxLen == 2

\* the stop value of the well-formed descriptors of the command line
MaxStop == 2

RECURSIVE Join(_, _)
Join(fields, sep) ==
    IF Len(fields) = 0 THEN <<>>
    ELSE IF Len(fields) = 1 THEN fields[1]
    ELSE fields[1] \o <<sep>> \o Join(Tail(fields), sep)

Title == <<"T">>

NoDart == [exists |-> FALSE, braces |-> FALSE, return |-> FALSE]

Never  == [kind |-> "never", pos |-> 0, val |-> 0]
Always == [kind |-> "always", pos |-> 0, val |-> 0]
At(p, v) == [kind |-> "at", pos |-> p, val |-> v]

Behaviours == {Never, Always, At(3, 0)} \cup {At(p, 1) : p \in 1..3}

NoFuncInput ==
    [form |-> "lambda", evals |-> FALSE, defines |-> FALSE, dart |-> NoDart,
     behaviour |-> NoFunc]

NoNotesFile == [exists |-> FALSE, content |-> <<>>]

NoArgv == [function |-> NoFuncInput, ranges |-> <<>>, notes |-> <<>>, title |-> Title]

\* the state before anything ran
Blank ==
    /\ files = NoFiles
    /\ stdout = <<>>
    /\ stderr = <<>>
    /\ status = 0 - 1
    /\ calls = <<>>
    /\ stages = <<>>
    /\ cur = NoCur
    /\ exc = "none"
    /\ ret = NoRange

(* parse_range_spec called on a descriptor *)

NameFields == {<<>>, <<"x">>}

NumFields ==
    {IntToStr(n) : n \in (0 - MaxInt)..MaxInt}
        \cup {<<"a">>, <<>>, <<"+", "1">>, <<" ", "2">>, <<"1", "-">>}

OddFields == {<<>>, <<"x">>, <<"1">>}

RangeDescriptors ==
    {Join(<<n, a, b, c>>, ":") : n \in NameFields, a \in NumFields,
                                 b \in NumFields, c \in NumFields}
        \cup {Join(f, ":") : f \in [1..3 -> OddFields] \cup [1..5 -> OddFields]}

InitRange ==
    /\ Blank
    /\ pc = "parse_range_spec"
    /\ \E d \in RangeDescriptors : argv = [NoArgv EXCEPT !.ranges = <<d>>]
    /\ env = [notes_file |-> NoNotesFile]
    /\ func = NoFunc
    /\ ranges_data = <<>>
    /\ notes = <<>>
    /\ outdir = [exists |-> FALSE, existed |-> FALSE]

NextRange == PR_Call

SpecRange == InitRange /\ [][NextRange]_vars

(* generate_tables called on a list of named ranges *)

PosName == <<<<"a">>, <<"b", "c">>, <<"d">>, <<"e">>>>

GenRanges ==
    {PyRange(1, n + 1, 1) : n \in 0..MaxLen}
        \cup {PyRange(n, 0, 0 - 1) : n \in 2..MaxLen}
        \cup {PyRange(0 - 1, 1, 1)}

\* the name at position p is empty or PosName[p]
GenLists(n) ==
    {[p \in 1..n |-> [name |-> IF e[p] THEN <<>> ELSE PosName[p], values |-> v[p]]] :
        e \in [1..n -> BOOLEAN], v \in [1..n -> GenRanges]}

\* lists of a wrong length are all refused alike: one range each
GenRangeLists ==
    GenLists(2) \cup GenLists(3)
        \cup {[p \in 1..n |-> [name |-> PosName[p], values |-> <<1>>]] : n \in {0, 1, 4}}

GenNotes == {<<>>, <<"n", " ">>}

InitGen ==
    /\ Blank
    /\ pc = "generate_tables"
    /\ argv = NoArgv
    /\ env = [notes_file |-> NoNotesFile]
    /\ ranges_data \in GenRangeLists
    /\ func \in Behaviours
    /\ notes \in GenNotes
    /\ \E d \in BOOLEAN : outdir = [exists |-> d, existed |-> d]

NextGen ==
    \/ GT_Enter
    \/ GT_ForFirst
    \/ WT_Open
    \/ WT_Header
    \/ WT_Row
    \/ WT_Cell
    \/ WT_EndRow

SpecGen == InitGen /\ [][NextGen]_vars

(* main run on a command line *)

Desc(name, start, stop, step) ==
    Join(<<name, IntToStr(start), IntToStr(stop), IntToStr(step)>>, ":")

\* two well-formed descriptors, one with an empty name, one with a zero
\* step, one with three fields
MainDescriptors ==
    {Desc(<<"w">>, 1, MaxStop, 1), Desc(<<"h", "t">>, MaxStop, 1, 0 - 1),
     Desc(<<>>, 1, 1, 1), Desc(<<"z">>, 1, 2, 0), <<"a", ":", "1", ":", "2">>}

MainRangeLists == UNION {[1..n -> MainDescriptors] : n \in 0..4}

Lambda(b) ==
    [form |-> "lambda", evals |-> TRUE, defines |-> FALSE, dart |-> NoDart,
     behaviour |-> b]

DartFile(e, b, r) == [exists |-> e, braces |-> b, return |-> r]

MainFuncInputs ==
    {Lambda(b) : b \in {Never, Always, At(2, 1)}}
        \cup {[Lambda(NoFunc) EXCEPT !.form = "expr", !.evals = FALSE],
              [Lambda(NoFunc) EXCEPT !.form = "def"],
              [Lambda(Never) EXCEPT !.form = "def", !.defines = TRUE],
              [Lambda(NoFunc) EXCEPT !.form = "dart"],
              [Lambda(NoFunc) EXCEPT !.form = "dart", !.dart = DartFile(TRUE, FALSE, FALSE)],
              [Lambda(NoFunc) EXCEPT !.form = "dart", !.dart = DartFile(TRUE, TRUE, FALSE)],
              [Lambda(NoFunc) EXCEPT !.form = "dart", !.dart = DartFile(TRUE, TRUE, TRUE),
                                     !.evals = FALSE],
              [Lambda(At(1, 1)) EXCEPT !.form = "dart", !.dart = DartFile(TRUE, TRUE, TRUE)]}

NotesPath == <<"a">> \o MdSuffix

NotesFile == [exists |-> TRUE, content |-> <<"N", "\n">>]

\* the --notes argument and the notes file of the run
MainNotes ==
    {<<t, NoNotesFile>> : t \in {<<>>, <<"n">>, <<" ", "n", "\n">>, <<" ">>, NotesPath}}
        \cup {<<NotesPath, NotesFile>>, <<NotesPath \o <<" ">>, NotesFile>>}

InitMain ==
    /\ Blank
    /\ pc = "main"
    /\ \E f \in MainFuncInputs, l \in MainRangeLists, n \in MainNotes :
          /\ argv = [function |-> f, ranges |-> l, notes |-> n[1], title |-> Title]
          /\ env = [notes_file |-> n[2]]
    /\ func = NoFunc
    /\ ranges_data = <<>>
    /\ notes = <<>>
    /\ outdir = [exists |-> FALSE, existed |-> FALSE]

Next ==
    \/ M_ParseArgs
    \/ M_CreateFunction
    \/ M_ParseRange
    \/ M_LoadNotes
    \/ GT_Enter
    \/ GT_ForFirst
    \/ WT_Open
    \/ WT_Header
    \/ WT_Row
    \/ WT_Cell
    \/ WT_EndRow
    \/ M_Catch
    \/ M_Return

Spec == InitMain /\ [][Next]_vars

\* the interpreter runs the one thread of main to its end
FairSpec == Spec /\ WF_vars(Next)

---------------------------------------------------------------------------
(* Properties of parse_range_spec, under SpecRange *)

RS_Parts == Split(argv.ranges[1], ":")

\* the descriptor has four fields and integer start, stop and step
RS_Integers ==
    /\ Len(RS_Parts) = 4
    /\ PyInt(RS_Parts[2]).ok /\ PyInt(RS_Parts[3]).ok /\ PyInt(RS_Parts[4]).ok

RS_Start == PyInt(RS_Parts[2]).val
RS_Stop  == PyInt(RS_Parts[3]).val
RS_Step  == PyInt(RS_Parts[4]).val

\* x lies beyond stop in the direction of step
Past(x, stop, step) == (step > 0 /\ x > stop) \/ (step < 0 /\ x < stop)

StrictlyMonotonic(v, step) ==
    \A i \in 1..(Len(v) - 1) :
        /\ step > 0 => v[i] < v[i + 1]
        /\ step < 0 => v[i] > v[i + 1]

\* C1: for a valid descriptor the sequence starts at start, advances by
\* exactly step, ends at the last value reachable from start that is not past
\* stop, and holds no value beyond stop.  Stated for the descriptors whose
\* start is not itself beyond stop, where the sequence cannot be empty.
C1_InclusiveUpToStop ==
    (pc = "range_done" /\ RS_Integers /\ ret.ok /\ ~Past(RS_Start, RS_Stop, RS_Step)) =>
        LET v == ret.values
        IN  /\ v # <<>>
            /\ v[1] = RS_Start
            /\ \A i \in 1..(Len(v) - 1) : v[i + 1] - v[i] = RS_Step
            /\ \A i \in 1..Len(v) : ~Past(v[i], RS_Stop, RS_Step)
            /\ Past(v[Len(v)] + RS_Step, RS_Stop, RS_Step)

\* C1, what the code does instead: the sequence starts at start, advances by
\* step, and ends at the last value that lies less than one step past stop,
\* which is stop itself exactly when stop is reachable.
C1_EndsWithinOneStepPastStop ==
    (pc = "range_done" /\ RS_Integers /\ ret.ok /\ ~Past(RS_Start, RS_Stop, RS_Step)) =>
        LET v == ret.values
        IN  /\ v # <<>>
            /\ v[1] = RS_Start
            /\ \A i \in 1..(Len(v) - 1) : v[i + 1] - v[i] = RS_Step
            /\ ~Past(v[Len(v)] - RS_Step, RS_Stop, RS_Step)
            /\ v[Len(v)] - RS_Step # RS_Stop
            /\ Past(v[Len(v)], RS_Stop, RS_Step) <=>
                   ((RS_Stop - RS_Start) % (IF RS_Step > 0 THEN RS_Step ELSE 0 - RS_Step) # 0)

\* C5 as claimed: every range the parser returns is non-empty and strictly
\* monotonic in the direction of the step.
C5_NonEmptyMonotonic ==
    (pc = "range_done" /\ ret.ok) =>
        /\ ret.values # <<>>
        /\ StrictlyMonotonic(ret.values, RS_Step)

\* C5 amended: every range the parser returns is strictly monotonic in the
\* direction of the step, and it is non-empty exactly when start lies before
\* stop + step in that direction; a start at or beyond stop + step gives an
\* empty range.
C5_MonotonicEmptyIffBeyond ==
    (pc = "range_done" /\ ret.ok) =>
        /\ StrictlyMonotonic(ret.values, RS_Step)
        /\ (ret.values # <<>>) <=>
               \/ RS_Step > 0 /\ RS_Start < RS_Stop + RS_Step
               \/ RS_Step < 0 /\ RS_Start > RS_Stop + RS_Step

\* an accepted descriptor whose start lies beyond stop, and its empty range
C5_Witness ==
    /\ pc = "range_done" /\ ret.ok
    /\ Past(RS_Start, RS_Stop, RS_Step)
    /\ ret.values = <<>>

\* C7 as claimed: a descriptor with four fields, integer start and stop and
\* step 0 is accepted by the parser.
C7_ZeroStepAccepted ==
    (pc = "range_done" /\ RS_Integers /\ RS_Step = 0) => ret.ok

\* C7 amended: a descriptor with four fields, integer start and stop and
\* step 0 is refused by the parser itself, with the ValueError it raises for
\* non-numeric fields; no range is returned.
C7_ZeroStepRejected ==
    (pc = "range_done" /\ RS_Integers /\ RS_Step = 0) =>
        /\ ~ret.ok
        /\ ret.exc = "ValueError:numeric"
        /\ ret.values = <<>>

\* the parser has returned from a descriptor with integer fields and step 0
C7_Witness == pc = "range_done" /\ RS_Integers /\ RS_Step = 0 /\ ~ret.ok

---------------------------------------------------------------------------
(* Properties of generate_tables, under SpecGen *)

\* generate_tables has returned or raised
GenDone == pc \in {"gt_return", "raised"}

\* d holds one data row per row value, in order, each with one cell per column
\* value, in order, the cell of a value func returns holding that value;
\* prefix is the outer value of the document, if any
TableHolds(d, prefix) ==
    /\ Len(d.rows) = Len(row_range)
    /\ \A i \in 1..Len(d.rows) :
          /\ d.rows[i].label = row_range[i]
          /\ Len(d.rows[i].cells) = Len(col_range)
          /\ \A j \in 1..Len(d.rows[i].cells) :
                LET args == prefix \o <<row_range[i], col_range[j]>>
                IN  ~Raises(func, args) => d.rows[i].cells[j] = ValueCell(args)

\* d holds ERROR in exactly the cells whose arguments make func raise
TableMarks(d, prefix) ==
    /\ TableHolds(d, prefix)
    /\ \A i \in 1..Len(d.rows) : \A j \in 1..Len(d.rows[i].cells) :
          (d.rows[i].cells[j].text = "ERROR") <=>
              Raises(func, prefix \o <<row_range[i], col_range[j]>>)

\* the documents titled for the k-th outer value
DocsOf(k) ==
    {fn \in DOMAIN files :
        files[fn].title = Title3D(argv.title, first_name, first_range[k])}

\* one document per outer value, none shared, none skipped, none besides
OnePerOuterValue ==
    /\ Cardinality(DOMAIN files) = Len(first_range)
    /\ \A k \in 1..Len(first_range) : Cardinality(DocsOf(k)) = 1

Named == row_name # <<>> /\ col_name # <<>>

\* C2: a 2-range request writes exactly one document, with |R| data rows
\* labelled R[i] in order and |C| cells per row, cell (i, j) holding the
\* value of function([R[i], C[j]]).
C2_TwoRangeTable ==
    (GenDone /\ Dim = 2) =>
        /\ Cardinality(DOMAIN files) = 1
        /\ \A fn \in DOMAIN files : TableHolds(files[fn], <<>>)

\* C2 for requests whose row and column names are not empty
C2_TwoRangeTable_Named ==
    (GenDone /\ Dim = 2 /\ Named) =>
        /\ pc = "gt_return"
        /\ Cardinality(DOMAIN files) = 1
        /\ \A fn \in DOMAIN files : TableHolds(files[fn], <<>>)

\* C3: a 3-range request writes exactly |O| documents, one per outer value,
\* each a |R| x |C| table whose cell (i, j) holds function([o, R[i], C[j]])
\* for the document's own outer value o.
C3_OneTablePerOuterValue ==
    (GenDone /\ Dim = 3) =>
        /\ OnePerOuterValue
        /\ \A k \in 1..Len(first_range) : \A fn \in DocsOf(k) :
              TableHolds(files[fn], <<first_range[k]>>)

\* C3 for requests whose row and column names are not empty
C3_OneTablePerOuterValue_Named ==
    (GenDone /\ Dim = 3 /\ Named) =>
        /\ pc = "gt_return"
        /\ OnePerOuterValue
        /\ \A k \in 1..Len(first_range) : \A fn \in DocsOf(k) :
              TableHolds(files[fn], <<first_range[k]>>)

\* the outer values of the call: none in the 2-range case
Outer == IF Dim = 3 THEN {<<first_range[k]>> : k \in 1..Len(first_range)} ELSE {<<>>}

\* func raises somewhere on the grid
RaisesSomewhere ==
    \E o \in Outer : \E i \in 1..Len(row_range) : \E j \in 1..Len(col_range) :
        Raises(func, o \o <<row_range[i], col_range[j]>>)

\* every document is there, every row of it, ERROR in exactly the failing cells
AllMarked ==
    /\ pc = "gt_return"
    /\ exc = "none"
    /\ IF Dim = 3
       THEN /\ OnePerOuterValue
            /\ \A k \in 1..Len(first_range) : \A fn \in DocsOf(k) :
                  TableMarks(files[fn], <<first_range[k]>>)
       ELSE /\ Cardinality(DOMAIN files) = 1
            /\ \A fn \in DOMAIN files : TableMarks(files[fn], <<>>)

\* C4: when func raises for some argument lists, exactly the cells of those
\* hold ERROR, every other cell holds the value, every row and every document
\* is written and generate_tables does not raise.
C4_ErrorCellsOnly ==
    (GenDone /\ Dim \in {2, 3} /\ RaisesSomewhere) => AllMarked

\* C4 for requests whose row and column names are not empty
C4_ErrorCellsOnly_Named ==
    (GenDone /\ Dim \in {2, 3} /\ RaisesSomewhere /\ Named) => AllMarked

\* C6 as claimed: with a number of ranges other than 2 or 3 the renderer
\* raises the dimension error, opens no file, never calls func and leaves the
\* output location as it was.
C6_RefusedUntouched ==
    (GenDone /\ Dim \notin {2, 3}) =>
        /\ pc = "raised" /\ exc = "ValueError:dimensions"
        /\ files = NoFiles
        /\ calls = <<>>
        /\ outdir.exists = outdir.existed

\* C6 amended: with a number of ranges other than 2 or 3 the renderer raises
\* the dimension error, opens no file and never calls func; the output
\* directory exists afterwards, created by the call when it was absent.
C6_RefusedAfterMakedirs ==
    (GenDone /\ Dim \notin {2, 3}) =>
        /\ pc = "raised" /\ exc = "ValueError:dimensions"
        /\ files = NoFiles
        /\ calls = <<>>
        /\ outdir.exists

\* a call with four ranges was refused and has created the output directory
C6_Witness ==
    /\ pc = "raised" /\ Dim = 4
    /\ ~outdir.existed /\ outdir.exists

---------------------------------------------------------------------------
(* Properties of main, under Spec *)

ErrorLines == {i \in 1..Len(stderr) : stderr[i][1] = "Error"}

RangeCountOk == Len(argv.ranges) \in {2, 3}

\* a stage before the renderer fails on the inputs of the run
LoadFails ==
    \/ ~create_function(argv.function).ok
    \/ \E i \in 1..Len(argv.ranges) : ~parse_range_spec(argv.ranges[i]).ok
    \/ argv.notes # <<>> /\ ~load_notes(argv.notes, env.notes_file).ok

\* C8: a run ends with status 0 and no Error line, or with a non-zero
\* status; a failure of a stage is caught once, printed as one Error line and
\* ends the run with status 1; a per-cell failure is none; a number of ranges
\* outside 2..3 is refused before any stage is invoked.
C8_Outcomes ==
    /\ pc # "exit" => status = 0 - 1 /\ stderr = <<>>
    /\ pc = "exit" =>
          \/ status = 0 /\ ErrorLines = {}
          \/ status \in {1, 2}
    /\ (pc = "exit" /\ exc # "none") =>
          status = 1 /\ stderr = <<<<"Error", exc>>>>
    /\ (pc = "exit" /\ RangeCountOk /\ LoadFails) =>
          status = 1 /\ Cardinality(ErrorLines) = 1 /\ Len(stderr) = 1
    /\ (pc = "exit" /\ RangeCountOk /\ exc = "none") =>
          status = 0 /\ stderr = <<>>
    /\ ~RangeCountOk =>
          /\ stages = <<>> /\ files = NoFiles /\ calls = <<>>
          /\ pc = "exit" => status = 2 /\ ErrorLines = {}

\* C8: every run of the driver ends, and in one of the outcomes above.  The
\* run is one sequential thread, so it takes its next step whenever it has one.
C8_DriverOutcomes == []C8_Outcomes /\ <>(pc = "exit")

\* a failure of the renderer was caught by main and ended the run
C8_Witness ==
    /\ pc = "exit" /\ status = 1
    /\ stages[Len(stages)] = "generate_tables"
    /\ Cardinality(ErrorLines) = 1

\* the --notes argument is literal text: it does not name a .md file
LiteralNotes == ~EndsWith(Strip(argv.notes), MdSuffix)

\* the notes block follows the title and precedes the header
NotesPlaced(d) ==
    /\ d.layout[1] = "title"
    /\ d.notes # <<>> => Len(d.layout) >= 2 /\ d.layout[2] = "notes"
    /\ \A i \in 1..Len(d.layout) : d.layout[i] = "notes" => i = 2 /\ d.notes # <<>>

\* C9 as claimed: literal notes stand in every document exactly as supplied,
\* after the title and before the header; empty notes add nothing.
C9_NotesVerbatim ==
    LiteralNotes =>
        \A fn \in DOMAIN files :
            /\ files[fn].notes = IF argv.notes = <<>> THEN <<>> ELSE <<argv.notes>>
            /\ NotesPlaced(files[fn])

\* C9 amended: literal notes stand in every document with their leading and
\* trailing whitespace removed and otherwise as supplied, after the title and
\* before the header; notes that are empty or all whitespace add nothing.
C9_NotesStripped ==
    LiteralNotes =>
        \A fn \in DOMAIN files :
            /\ files[fn].notes =
                   IF Strip(argv.notes) = <<>> THEN <<>> ELSE <<Strip(argv.notes)>>
            /\ NotesPlaced(files[fn])

\* a 3-range run ended well with two documents, each with the stripped notes
C9_Witness ==
    /\ pc = "exit" /\ status = 0 /\ Dim = 3
    /\ Cardinality(DOMAIN files) >= 2
    /\ LiteralNotes
    /\ Strip(argv.notes) # argv.notes
    /\ \A fn \in DOMAIN files : files[fn].notes = <<Strip(argv.notes)>>

\* d has its header row, its separator row and all its data rows, each ended
Complete(d) ==
    /\ d.header # <<>>
    /\ d.sep # <<>>
    /\ Len(d.rows) = Len(row_range)
    /\ \A i \in 1..Len(d.rows) : d.rows[i].ended

\* C10: when the run has ended, every document file that was created is
\* complete; a run that ended with a fatal error has created no file.
C10_NoPartialDocument ==
    pc = "exit" =>
        /\ \A fn \in DOMAIN files : Complete(files[fn])
        /\ status = 1 => files = NoFiles

=============================================================================
